---- MODULE Spec2Model ----
(***************************************************************************)
(* Distributed translation pipeline of app/tasks.py (Celery tasks          *)
(* split_and_dispatch, process_chunk, aggregate_results) together with the *)
(* cancel endpoint of app/main-Copy5.py.                                   *)
(*                                                                         *)
(* A text is a sequence of characters; a character is one of Chars, each   *)
(* with its UTF-8 width.  A file is the character sequence it holds.       *)
(***************************************************************************)
EXTENDS Integers, Sequences, FiniteSets, TLC

(***************************************************************************)
(* Bounds of the model.                                                    *)
(***************************************************************************)
MaxDocLen == 4
MaxChunkSize == 4
MaxResults == 3
MaxCrashes == 1
MaxCancels == 1
MaxPlainLen == 17

(***************************************************************************)
(* Constants of the program.                                               *)
(***************************************************************************)
ProgressTtl == 86400
FinishedTtl == 3600
NoMatchIndex == 999999
BlockBytes == 16
MaxRetries == 3
RetryCountdown == 30

(***************************************************************************)
(* Characters.  "a" is a one-byte character, "U3" a three-byte one (for    *)
(* instance a kana), "CR" and "LF" the two line-terminator characters.     *)
(***************************************************************************)
Chars == {"a", "U3", "CR", "LF"}

\* len(c.encode('utf-8')) of one character
Utf8Len(c) == IF c = "U3" THEN 3 ELSE 1

RECURSIVE Utf8Bytes(_)
\* len(text.encode('utf-8'))
Utf8Bytes(text) ==
    IF text = <<>> THEN 0 ELSE Utf8Len(Head(text)) + Utf8Bytes(Tail(text))

RECURSIVE Join(_)
\* "".join(list_of_texts)
Join(texts) ==
    IF texts = <<>> THEN <<>> ELSE Head(texts) \o Join(Tail(texts))

RECURSIVE UniversalNewlines(_)
\* What a text-mode read (newline=None) returns for the raw text: every
\* "\r\n" and every lone "\r" arrives as "\n".
UniversalNewlines(raw) ==
    IF raw = <<>> THEN <<>>
    ELSE IF Head(raw) = "CR"
         THEN IF Len(raw) >= 2 /\ raw[2] = "LF"
              THEN <<"LF">> \o UniversalNewlines(SubSeq(raw, 3, Len(raw)))
              ELSE <<"LF">> \o UniversalNewlines(Tail(raw))
         ELSE <<Head(raw)>> \o UniversalNewlines(Tail(raw))

RECURSIVE LinesOf(_, _)
\* The lines of an already translated text: each ends after its "\n"; a
\* last line without "\n" is a line too.  cur is the line being collected.
LinesOf(text, cur) ==
    IF text = <<>> THEN (IF cur = <<>> THEN <<>> ELSE <<cur>>)
    ELSE IF Head(text) = "LF"
         THEN <<Append(cur, "LF")>> \o LinesOf(Tail(text), <<>>)
         ELSE LinesOf(Tail(text), Append(cur, Head(text)))

\* The lines `for line in f` yields for a file opened with open(p, 'r').
ReadLines(raw) == LinesOf(UniversalNewlines(raw), <<>>)

\* the line's length in characters instead of bytes
LineBytes_CharCount(line) == Len(line)

\* len(line.encode('utf-8'))
LineBytes(line) == Utf8Bytes(line)

(***************************************************************************)
(* Chunk file names.  A chunk path stands for                              *)
(* temp/{task_id}_chunk_{chunk_idx}.txt; the index is written in decimal.  *)
(***************************************************************************)
RECURSIVE ToDigits(_)
\* str(n) as a sequence of decimal digits
ToDigits(n) ==
    IF n < 10 THEN <<n>> ELSE Append(ToDigits(n \div 10), n % 10)

RECURSIVE FromDigits(_)
\* int(digits)
FromDigits(ds) ==
    IF Len(ds) = 1 THEN ds[1]
    ELSE 10 * FromDigits(SubSeq(ds, 1, Len(ds) - 1)) + ds[Len(ds)]

JobId == <<"job">>
CallbackId == <<"callback">>
ChildId(i) == <<"child", i>>
Password == "pw"
\* the passphrases a caller may supply: the job's and another one
Passwords == {Password, "other"}

\* temp_dir / f"{task_id}_chunk_{chunk_idx}.txt"
ChunkPath(task_id, chunk_idx) ==
    [kind |-> "chunk_txt", job |-> task_id, digits |-> ToDigits(chunk_idx)]

\* path.with_suffix('.translated.enc')
WithSuffixTranslatedEnc(path) == [path EXCEPT !.kind = "chunk_translated_enc"]

\* results_dir / f"{original_task_id}_final.txt.enc"
FinalPath(task_id) == [kind |-> "final_txt_enc", job |-> task_id, digits |-> <<>>]

\* results_dir / f"{original_task_id}_log.json"
LogPath(task_id) == [kind |-> "log_json", job |-> task_id, digits |-> <<>>]

\* a file_path at which no file exists
NoFile == <<"ENOENT">>
\* Python's None where a string is expected (no stored string is empty)
None == <<>>
\* Python's None where a path, a store entry or a task result is expected
NoPath == [kind |-> "none", job |-> <<>>, digits |-> <<>>]
NoKey == [exists |-> FALSE]
NoResult == [status |-> "none"]

\* re.search(r'chunk_(\d+)\.txt$', path_str), then int() of the group
\* _extract_chunk_index
ExtractChunkIndex(path) ==
    IF path # NoPath /\ path.kind = "chunk_txt" /\ path.digits # <<>>
    THEN FromDigits(path.digits)
    ELSE NoMatchIndex

VARIABLES
    response,       \* what the HTTP front-end answered to the last request
    crypt,          \* a caller of encrypt_and_save and decrypt_file: its frame
    source,         \* raw text of the uploaded file at file_path, or NoFile
    chunk_size,     \* chunk_size argument of split_and_dispatch
    ppc,            \* position of the split_and_dispatch task
    presult,        \* what split_and_dispatch returned, or NoResult
    lines,          \* the lines the file iterator f has not yielded yet
    current_lines,  \* split_and_dispatch local
    current_bytes,  \* split_and_dispatch local
    chunk_idx,      \* split_and_dispatch local
    chunk_paths,    \* split_and_dispatch local
    files,          \* the shared file system: path -> content
    redis,          \* the shared key-value store: key -> NoKey or [val, ttl]
    header,         \* the chord's header: one process_chunk signature per chunk
    child,          \* per header task: position and locals of its execution
    chord_results,  \* results the header tasks have reported, in arrival order
    callback,       \* the callback task the chord holds, or NoCallback
    cb_state,       \* the chord's callback: "none", "waiting", "queued", "done"
    cb_args,        \* the results list the callback is invoked with
    cb_result,      \* what aggregate_results returned, or NoResult
    agg_calls,      \* number of invocations of aggregate_results
    aborted,        \* task ids whose state in the result backend is ABORTED
    revoked,        \* task ids a revoke has been broadcast for
    crashes,        \* number of worker deaths so far
    cancels         \* number of cancel requests so far

vars == <<response, crypt, source, chunk_size, ppc, presult, lines, current_lines,
          current_bytes,
          chunk_idx, chunk_paths, files, redis, header, child, chord_results,
          callback, cb_state, cb_args, cb_result, agg_calls, aborted, revoked,
          crashes, cancels>>

splitLocals == <<lines, current_lines, current_bytes, chunk_idx, chunk_paths>>
workerVars == <<header, child, chord_results>>
callbackVars == <<callback, cb_state, cb_args, cb_result, agg_calls>>
cancelVars == <<aborted, revoked, cancels>>

\* cp.write_text(text) / file_path.write_bytes(data): creates or overwrites
WriteText(fs, path, text) ==
    [p \in (DOMAIN fs) \cup {path} |-> IF p = path THEN text ELSE fs[p]]

EmptyFs == [p \in {} |-> <<>>]

(***************************************************************************)
(* split_and_dispatch, part 1: the chunking loop.  The loop's locals and   *)
(* the file system it writes are gathered in a record st so that the same  *)
(* step serves the action and the worked example.                          *)
(***************************************************************************)
\* the flush condition without its `and current_lines`
MustFlush_NoEmptyGuard(cur_bytes, line_bytes, size, cur_lines) ==
    cur_bytes + line_bytes > size

\* a flush only once the pending lines have reached the size
MustFlush_WhenFull(cur_bytes, line_bytes, size, cur_lines) ==
    cur_bytes >= size /\ cur_lines # <<>>

\* the flush condition of the loop
MustFlush(cur_bytes, line_bytes, size, cur_lines) ==
    cur_bytes + line_bytes > size /\ cur_lines # <<>>

\* save the pending lines as chunk number st.chunk_idx
SaveChunk(st, task_id) ==
    LET cp == ChunkPath(task_id, st.chunk_idx)
    IN  [st EXCEPT !.files = WriteText(st.files, cp, Join(st.current_lines)),
                   !.chunk_paths = Append(st.chunk_paths, cp)]

\* one iteration of `for line in f`
LoopStep(st, line, size, task_id) ==
    LET line_bytes == LineBytes(line)
        flushed ==
            IF MustFlush(st.current_bytes, line_bytes, size, st.current_lines)
            THEN [SaveChunk(st, task_id) EXCEPT !.chunk_idx = st.chunk_idx + 1,
                                                !.current_lines = <<>>,
                                                !.current_bytes = 0]
            ELSE st
    IN  [flushed EXCEPT !.current_lines = Append(flushed.current_lines, line),
                        !.current_bytes = flushed.current_bytes + line_bytes]

\* after the loop: the remaining lines are saved as the last chunk
FlushRest(st, task_id) ==
    IF st.current_lines # <<>> THEN SaveChunk(st, task_id) ELSE st

LoopState ==
    [current_lines |-> current_lines, current_bytes |-> current_bytes,
     chunk_idx |-> chunk_idx, chunk_paths |-> chunk_paths, files |-> files]

SetLoopState(st) ==
    /\ current_lines' = st.current_lines
    /\ current_bytes' = st.current_bytes
    /\ chunk_idx' = st.chunk_idx
    /\ chunk_paths' = st.chunk_paths
    /\ files' = st.files

SplitLine ==
    /\ ppc = "split"
    /\ lines # <<>>
    /\ lines' = Tail(lines)
    /\ SetLoopState(LoopStep(LoopState, Head(lines), chunk_size, JobId))
    /\ UNCHANGED <<response, crypt, source, chunk_size, ppc, presult, redis, crashes>>
    /\ UNCHANGED <<workerVars, callbackVars, cancelVars>>

SplitFlushRest ==
    /\ ppc = "split"
    /\ lines = <<>>
    /\ SetLoopState(FlushRest(LoopState, JobId))
    /\ ppc' = "split_done"
    /\ UNCHANGED <<response, crypt, source, chunk_size, lines, presult, redis, crashes>>
    /\ UNCHANGED <<workerVars, callbackVars, cancelVars>>

(***************************************************************************)
(* The shared key-value store.  Values are strings: a number is stored as  *)
(* its decimal digits.  A key is absent (NoKey) or holds [val, ttl]; a ttl  *)
(* of -1 is "no expiry".                                                   *)
(***************************************************************************)
TotalKey(task_id) == <<"progress", task_id, "total">>
CompletedKey(task_id) == <<"progress", task_id, "completed">>
CallbackMapKey(task_id) == <<"callback_map", task_id>>

RedisKeys == {TotalKey(JobId), CompletedKey(JobId), CallbackMapKey(JobId)}

EmptyRedis == [k \in RedisKeys |-> NoKey]

\* redis_client.setex(key, ttl, value)
Setex(r, key, ttl, value) ==
    [r EXCEPT ![key] = [exists |-> TRUE, val |-> value, ttl |-> ttl]]

\* redis_client.incr(key): an absent key counts as 0 and is created without
\* expiry; an existing key keeps its expiry
Incr(r, key) ==
    IF r[key] = NoKey
    THEN [r EXCEPT ![key] = [exists |-> TRUE, val |-> ToDigits(1), ttl |-> -1]]
    ELSE [r EXCEPT ![key].val = ToDigits(FromDigits(r[key].val) + 1)]

\* redis_client.expire(key, ttl): no effect on an absent key
Expire(r, key, ttl) ==
    IF r[key] = NoKey THEN r ELSE [r EXCEPT ![key].ttl = ttl]

\* redis_client.get(key)
Get(r, key) == IF r[key] = NoKey THEN None ELSE r[key].val

\* get_task_progress; percent is kept in hundredths of a percent
GetTaskProgress(r, task_id) ==
    LET total == Get(r, TotalKey(task_id))
        completed == Get(r, CompletedKey(task_id))
    IN  IF total = None THEN [status |-> "not_found"]
        ELSE LET t == FromDigits(total)
                 c == IF completed = None THEN 0 ELSE FromDigits(completed)
             IN  [task_id |-> task_id, total |-> t, completed |-> c,
                  percent |-> IF t > 0 THEN (2 * c * 10000 + t) \div (2 * t) ELSE 0,
                  is_finished |-> c >= t]

\* a lookup without the fallback to the task's own id
GetCallbackId_NoFallback(r, task_id) == Get(r, CallbackMapKey(task_id))

\* get_callback_id
GetCallbackId(r, task_id) ==
    LET callback_id == Get(r, CallbackMapKey(task_id))
    IN  IF callback_id # None THEN callback_id ELSE task_id

(***************************************************************************)
(* Encryption helpers.  A text is encoded to UTF-8 bytes and padded to     *)
(* whole blocks; the cipher itself is kept symbolic: an encrypted file     *)
(* holds the IV, the key it was made under and the padded bytes, and       *)
(* decryption under that key gives the padded bytes back.  Under another   *)
(* key the bytes that come out depend on key, IV and ciphertext: for some  *)
(* the unpadder or the decoder rejects them, for others both accept them   *)
(* (LuckyIVs).                                                             *)
(***************************************************************************)
IVs == {0, 1}
LuckyIVs == {1}
DecryptRaises == <<"ValueError">>
Garbage == <<"GARBAGE">>

\* get_cipher_key
GetCipherKey(password) == <<"sha256", password>>

\* the UTF-8 bytes of one character
Utf8Code(c) ==
    CASE c = "U3" -> <<227, 129, 130>>
      [] c = "LF" -> <<10>>
      [] c = "CR" -> <<13>>
      [] c = "a" -> <<97>>
      [] c = "T" -> <<84>>
      [] c = "GARBAGE" -> <<0>>
      [] OTHER -> <<45>>

RECURSIVE Utf8Encode(_)
\* content.encode('utf-8')
Utf8Encode(text) ==
    IF text = <<>> THEN <<>> ELSE Utf8Code(Head(text)) \o Utf8Encode(Tail(text))

RECURSIVE Utf8Decode(_)
\* content.decode('utf-8'); DecryptRaises stands for UnicodeDecodeError, a
\* ValueError
Utf8Decode(bytes) ==
    IF bytes = <<>> THEN <<>>
    ELSE LET b == Head(bytes)
             wide == b = 227 /\ Len(bytes) >= 3 /\ bytes[2] = 129 /\ bytes[3] = 130
             c == CASE wide -> "U3"
                    [] b = 10 -> "LF"
                    [] b = 13 -> "CR"
                    [] b = 97 -> "a"
                    [] b = 84 -> "T"
                    [] b = 0 -> "GARBAGE"
                    [] b = 45 -> "ERROR_IN_CHUNK"
                    [] OTHER -> "invalid"
             rest == Utf8Decode(SubSeq(bytes, IF wide THEN 4 ELSE 2, Len(bytes)))
         IN  IF c = "invalid" \/ rest = DecryptRaises THEN DecryptRaises
             ELSE <<c>> \o rest

\* a padder that adds nothing to data that already fills its blocks
Pkcs7Pad_NoFullBlock(data) ==
    LET n == (BlockBytes - (Len(data) % BlockBytes)) % BlockBytes
    IN  data \o [k \in 1..n |-> n]

\* padding.PKCS7(128).padder(): n bytes of value n, 1 <= n <= BlockBytes
Pkcs7Pad(data) ==
    LET n == BlockBytes - (Len(data) % BlockBytes)
    IN  data \o [k \in 1..n |-> n]

\* padding.PKCS7(128).unpadder(): the last byte says how many to remove
Pkcs7Unpad(padded) ==
    LET len == Len(padded)
        n == IF len = 0 THEN 0 ELSE padded[len]
    IN  IF /\ len > 0
           /\ len % BlockBytes = 0
           /\ n >= 1
           /\ n <= BlockBytes
           /\ \A k \in (len - n + 1)..len : padded[k] = n
        THEN [ok |-> TRUE, data |-> SubSeq(padded, 1, len - n)]
        ELSE [ok |-> FALSE, data |-> <<>>]

\* a save that writes no file
EncryptAndSave_NoWrite(fs, content, file_path, password, iv) == fs

\* encrypt_and_save, with the IV os.urandom drew
EncryptAndSave(fs, content, file_path, password, iv) ==
    WriteText(fs, file_path,
              [iv |-> iv, key |-> GetCipherKey(password),
               padded |-> Pkcs7Pad(Utf8Encode(content))])

\* decrypt_file
DecryptFile(fs, file_path, password) ==
    IF file_path \notin DOMAIN fs THEN <<>>
    ELSE LET data == fs[file_path]
             unpadded == Pkcs7Unpad(data.padded)
         IN  IF data.key = GetCipherKey(password)
             THEN IF unpadded.ok THEN Utf8Decode(unpadded.data)
                  ELSE DecryptRaises
             ELSE IF data.iv \in LuckyIVs THEN Garbage
             ELSE DecryptRaises

(***************************************************************************)
(* split_and_dispatch, the rest of the task.                               *)
(***************************************************************************)
LangSettings ==
    [source_lang |-> "Japanese", source_code |-> "ja",
     target_lang |-> "English", target_code |-> "en"]

\* a signature that leaves encryption_password to its default
ProcessChunkSignature_DefaultPassword(path, task_id, password) ==
    [chunk_path |-> path, original_task_id |-> task_id,
     encryption_password |-> "password", lang_settings |-> LangSettings]

\* process_chunk.s(chunk_path=path, original_task_id=task_id, ...)
ProcessChunkSignature(path, task_id, password) ==
    [chunk_path |-> path, original_task_id |-> task_id,
     encryption_password |-> password, lang_settings |-> LangSettings]

\* the header of the chord: one signature per chunk path, in order
BuildHeader(paths, task_id, password) ==
    [k \in 1..Len(paths) |-> ProcessChunkSignature(paths[k], task_id, password)]

\* aggregate_results.s(original_task_id=task_id, encryption_password=...),
\* under the id the chord gives it
AggregateResultsSignature(task_id, password, id) ==
    [id |-> id, original_task_id |-> task_id, encryption_password |-> password]

NoCallback == AggregateResultsSignature(None, "", None)

\* a header task that no worker has taken yet
QueuedChild ==
    [pc |-> "queued", ret |-> NoResult, content |-> <<>>, incrs |-> 0,
     calls |-> 0, retries |-> 0]

\* a start that goes on to the split whether the file exists or not
ParentStart_NoExistsCheck ==
    /\ ppc = "queued"
    /\ ppc' = "split"
    /\ lines' = IF source = NoFile THEN <<>> ELSE ReadLines(source)
    /\ UNCHANGED <<response, crypt, source, chunk_size, presult, current_lines,
                   current_bytes, chunk_idx, chunk_paths, files, redis, crashes>>
    /\ UNCHANGED <<workerVars, callbackVars, cancelVars>>

\* A worker takes the task from parent_queue: the existence check.
ParentStart ==
    /\ ppc = "queued"
    /\ IF source = NoFile
       THEN /\ ppc' = "failed"
            /\ lines' = lines
            /\ aborted' = aborted \ {JobId}
       ELSE /\ ppc' = "split"
            /\ lines' = ReadLines(source)
            /\ aborted' = aborted
    /\ UNCHANGED <<response, crypt, source, chunk_size, presult, current_lines, current_bytes,
                   chunk_idx, chunk_paths, files, redis, crashes, revoked,
                   cancels>>
    /\ UNCHANGED <<workerVars, callbackVars>>

\* a dispatcher that initialises the progress record for any chunk list
InitTotal_AlwaysSet ==
    /\ ppc = "split_done"
    /\ redis' = Setex(redis, TotalKey(JobId), ProgressTtl,
                      ToDigits(Len(chunk_paths)))
    /\ ppc' = "init_completed"
    /\ UNCHANGED <<response, crypt, source, chunk_size, presult, splitLocals, files, crashes>>
    /\ UNCHANGED <<workerVars, callbackVars, cancelVars>>

\* `if not chunk_paths: return skipped`, else the first setex
InitTotal ==
    /\ ppc = "split_done"
    /\ IF chunk_paths = <<>>
       THEN /\ presult' = [status |-> "skipped", reason |-> "empty file"]
            /\ ppc' = "done"
            /\ aborted' = aborted \ {JobId}
            /\ redis' = redis
       ELSE /\ redis' = Setex(redis, TotalKey(JobId), ProgressTtl,
                              ToDigits(Len(chunk_paths)))
            /\ ppc' = "init_completed"
            /\ UNCHANGED <<presult, aborted>>
    /\ UNCHANGED <<response, crypt, source, chunk_size, splitLocals, files, crashes, revoked,
                   cancels>>
    /\ UNCHANGED <<workerVars, callbackVars>>

\* a dispatcher that leaves `completed` to the first increment
InitCompleted_NoSetex ==
    /\ ppc = "init_completed"
    /\ ppc' = "chord"
    /\ UNCHANGED <<response, crypt, source, chunk_size, presult, splitLocals, files,
                   redis, crashes>>
    /\ UNCHANGED <<workerVars, callbackVars, cancelVars>>

\* the second setex
InitCompleted ==
    /\ ppc = "init_completed"
    /\ redis' = Setex(redis, CompletedKey(JobId), ProgressTtl, ToDigits(0))
    /\ ppc' = "chord"
    /\ UNCHANGED <<response, crypt, source, chunk_size, presult, splitLocals, files, crashes>>
    /\ UNCHANGED <<workerVars, callbackVars, cancelVars>>

\* chord(header)(callback): the header tasks are queued on child_queue and
\* the callback waits for all of them
SubmitChord ==
    /\ ppc = "chord"
    /\ header' = BuildHeader(chunk_paths, JobId, Password)
    /\ child' = [i \in 1..Len(header') |-> QueuedChild]
    /\ callback' = AggregateResultsSignature(JobId, Password, CallbackId)
    /\ cb_state' = "waiting"
    /\ ppc' = "map"
    /\ UNCHANGED <<response, crypt, source, chunk_size, presult, splitLocals, files, redis,
                   chord_results, cb_args, cb_result, agg_calls, crashes>>
    /\ UNCHANGED cancelVars

\* the callback_map entry and the return value
StoreCallbackMap ==
    /\ ppc = "map"
    /\ redis' = Setex(redis, CallbackMapKey(JobId), ProgressTtl, callback.id)
    /\ presult' = [status |-> "dispatched", parent_task_id |-> JobId,
                   callback_task_id |-> callback.id,
                   total_chunks |-> Len(chunk_paths)]
    /\ ppc' = "done"
    /\ aborted' = aborted \ {JobId}
    /\ UNCHANGED <<response, crypt, source, chunk_size, splitLocals, files, crashes, revoked,
                   cancels>>
    /\ UNCHANGED <<workerVars, callbackVars>>

(***************************************************************************)
(* process_chunk.  child[i] is the execution of header task i: its         *)
(* position, its locals, and how often this execution has incremented the  *)
(* counter (incrs) and called the inference service (calls).               *)
(***************************************************************************)
Whitespace == {"LF", "CR"}

RECURSIVE LStrip(_)
LStrip(text) ==
    IF text # <<>> /\ Head(text) \in Whitespace THEN LStrip(Tail(text)) ELSE text

RECURSIVE RStrip(_)
RStrip(text) ==
    IF text # <<>> /\ text[Len(text)] \in Whitespace
    THEN RStrip(SubSeq(text, 1, Len(text) - 1))
    ELSE text

\* a read that trims nothing
Strip_Identity(text) == text

\* str.strip()
Strip(text) == LStrip(RStrip(text))

\* path.read_text(encoding='utf-8')
ReadText(fs, path) == UniversalNewlines(fs[path])

\* the dicts process_chunk returns; a key the dict lacks is None / NoPath
AbortedResult(chunk_path) ==
    [status |-> "aborted", path |-> chunk_path, input_path |-> NoPath,
     result_path |-> NoPath, message |-> None]
EmptyResult(chunk_path) ==
    [status |-> "empty", path |-> chunk_path, input_path |-> NoPath,
     result_path |-> NoPath, message |-> None]
ErrorResult(chunk_path, message) ==
    [status |-> "error", path |-> chunk_path, input_path |-> NoPath,
     result_path |-> NoPath, message |-> message]
SuccessResult(chunk_path, result_chunk_path) ==
    [status |-> "success", path |-> NoPath, input_path |-> chunk_path,
     result_path |-> result_chunk_path, message |-> None]

\* no dict is returned: the exception exc is leaving the function
RaisedException(chunk_path, exc) ==
    [status |-> "raised", path |-> chunk_path, input_path |-> NoPath,
     result_path |-> NoPath, message |-> exc]

\* What the POST to the inference service and the saving of its answer can
\* end in: the translation is saved, a requests.exceptions.RequestException
\* (network failure, timeout, non-2xx), a body that is not JSON, or an
\* OSError of write_bytes.
InferenceOutcomes == {"ok", "request_exception", "bad_json", "write_error"}

\* the exception an outcome other than "ok" raises inside the try block
ExceptionOf(outcome) ==
    CASE outcome = "request_exception" -> <<"RequestException">>
      [] outcome = "bad_json" -> <<"JSONDecodeError">>
      [] OTHER -> <<"OSError">>

\* a handler for request exceptions only
CaughtByExcept_OnlyRequests(exc) == exc = <<"RequestException">>

\* `except Exception as e`: every exception the try block can raise is an
\* Exception
CaughtByExcept(exc) == TRUE

\* autoretry_for=(requests.exceptions.RequestException,): an exception that
\* leaves the function is retried if it is one of these
AutoRetried(exc) == exc = <<"RequestException">>

\* the text the service generates for a prompt
Generated(prompt) == <<"T">> \o prompt.TEXT

Children == DOMAIN child

Running == {"call", "finally", "return"}

\* an entry check that never sees the flag
IsAborted_Never(i) == FALSE

\* self.is_aborted(): the state stored for this task's own id is ABORTED
IsAborted(i) == ChildId(i) \in aborted

workerFrame ==
    <<response, crypt, source, chunk_size, ppc, presult, splitLocals, header, crashes,
      revoked, cancels>>

\* 2. the prompt
FullPrompt(lang_settings, content) ==
    [SOURCE_LANG |-> lang_settings.source_lang,
     SOURCE_CODE |-> lang_settings.source_code,
     TARGET_LANG |-> lang_settings.target_lang,
     TARGET_CODE |-> lang_settings.target_code,
     TEXT |-> content]

\* A worker takes header task i from child_queue and runs process_chunk up
\* to the POST: the abort check on entry, then the chunk is read and
\* stripped, and an empty one returns at once.
EntryCheck(i) ==
    /\ child[i].pc = "queued"
    /\ LET chunk_path == header[i].chunk_path
           started == QueuedChild
           content == IF chunk_path \in DOMAIN files
                      THEN Strip(ReadText(files, chunk_path))
                      ELSE <<>>
       IN  IF IsAborted(i)
           THEN /\ redis' = Incr(redis, CompletedKey(header[i].original_task_id))
                /\ child' = [child EXCEPT ![i] =
                                [started EXCEPT !.pc = "return",
                                                !.incrs = 1,
                                                !.ret = AbortedResult(chunk_path)]]
           ELSE /\ redis' = redis
                /\ child' = [child EXCEPT ![i] =
                      IF chunk_path \notin DOMAIN files
                      THEN [started EXCEPT !.pc = "finally",
                               !.ret = ErrorResult(chunk_path, <<"FileNotFoundError">>)]
                      ELSE IF content = <<>>
                      THEN [started EXCEPT !.pc = "finally",
                                           !.ret = EmptyResult(chunk_path)]
                      ELSE [started EXCEPT !.pc = "call", !.content = content]]
    /\ UNCHANGED <<workerFrame, files, chord_results, aborted>>
    /\ UNCHANGED callbackVars

\* 3. requests.post, raise_for_status, response.json(),
\* data.get("response", ""); then the translation is saved encrypted next
\* to the chunk, under the IV os.urandom drew.
CallInference(i, outcome, iv) ==
    /\ child[i].pc = "call"
    /\ LET chunk_path == header[i].chunk_path
           result_chunk_path == WithSuffixTranslatedEnc(chunk_path)
           prompt == FullPrompt(header[i].lang_settings, child[i].content)
           translated_text == Generated(prompt)
       IN  IF outcome = "ok"
           THEN /\ files' = EncryptAndSave(files, translated_text, result_chunk_path,
                                           header[i].encryption_password, iv)
                /\ child' = [child EXCEPT ![i].pc = "finally",
                                ![i].calls = child[i].calls + 1,
                                ![i].content = <<>>,
                                ![i].ret = SuccessResult(chunk_path, result_chunk_path)]
           ELSE /\ files' = files
                /\ child' = [child EXCEPT ![i].pc = "finally",
                                ![i].calls = child[i].calls + 1,
                                ![i].content = <<>>,
                                ![i].ret =
                                    IF CaughtByExcept(ExceptionOf(outcome))
                                    THEN ErrorResult(chunk_path, ExceptionOf(outcome))
                                    ELSE RaisedException(chunk_path,
                                                         ExceptionOf(outcome))]
    /\ UNCHANGED <<workerFrame, redis, chord_results, aborted>>
    /\ UNCHANGED callbackVars

\* a finally block that leaves the counter alone
FinallyIncr_NoIncr(i) ==
    /\ child[i].pc = "finally"
    /\ child' = [child EXCEPT ![i].pc = "return"]
    /\ UNCHANGED <<workerFrame, files, redis, chord_results, aborted>>
    /\ UNCHANGED callbackVars

\* finally: the completed counter is incremented
FinallyIncr(i) ==
    /\ child[i].pc = "finally"
    /\ redis' = Incr(redis, CompletedKey(header[i].original_task_id))
    /\ child' = [child EXCEPT ![i].pc = "return", ![i].incrs = child[i].incrs + 1]
    /\ UNCHANGED <<workerFrame, files, chord_results, aborted>>
    /\ UNCHANGED callbackVars

\* a barrier that opens at the first report
ChordComplete_FirstReport(results, hdr) == Len(results) >= 1

\* the chord's barrier: every header task has reported its result
ChordComplete(results, hdr) == Len(results) = Len(hdr)

\* The function has returned: the result is stored (the task's state is
\* now SUCCESS), reported to the chord and the queue item acknowledged
\* (acks_late).  The report that completes the header queues the callback
\* with all the results.
\* An exception that leaves the function instead goes to the task's
\* wrapper: one of autoretry_for is retried (the task is queued again, at
\* most max_retries times, after the countdown), any other fails the task.
ReturnResult(i) ==
    /\ child[i].pc = "return"
    /\ IF child[i].ret.status = "raised"
       THEN /\ child' = [child EXCEPT ![i] =
                  IF AutoRetried(child[i].ret.message)
                     /\ child[i].retries < MaxRetries
                  THEN [QueuedChild EXCEPT !.retries = child[i].retries + 1]
                  ELSE [child[i] EXCEPT !.pc = "raised"]]
            /\ UNCHANGED <<chord_results, aborted, cb_state, cb_args>>
       ELSE /\ child' = [child EXCEPT ![i].pc = "done"]
            /\ chord_results' = Append(chord_results, child[i].ret)
            /\ aborted' = aborted \ {ChildId(i)}
            /\ IF ChordComplete(chord_results', header) /\ cb_state = "waiting"
               THEN /\ cb_state' = "queued"
                    /\ cb_args' = chord_results'
               ELSE UNCHANGED <<cb_state, cb_args>>
    /\ UNCHANGED <<workerFrame, files, redis, callback, cb_result, agg_calls>>

\* redis_client.incr raises because the store cannot be reached, in the
\* finally block or in the abort branch: nothing catches the exception, it
\* leaves the function and the task fails without a result.
IncrRaises(i) ==
    /\ child[i].pc \in {"finally"} \cup (IF IsAborted(i) THEN {"queued"} ELSE {})
    /\ child' = [child EXCEPT ![i].pc = "raised",
                    ![i].ret = RaisedException(header[i].chunk_path,
                                               <<"ConnectionError">>)]
    /\ aborted' = aborted \ {ChildId(i)}
    /\ UNCHANGED <<workerFrame, files, redis, chord_results>>
    /\ UNCHANGED callbackVars

\* The worker running header task i dies before it has acknowledged the
\* queue item: the item is delivered again (acks_late).
WorkerDies(i) ==
    /\ child[i].pc \in Running
    /\ crashes < MaxCrashes
    /\ crashes' = crashes + 1
    /\ child' = [child EXCEPT ![i] =
                    [QueuedChild EXCEPT !.retries = child[i].retries]]
    /\ UNCHANGED <<response, crypt, source, chunk_size, ppc, presult, splitLocals, header, files,
                   redis, chord_results>>
    /\ UNCHANGED <<callbackVars, cancelVars>>

\* The pool process running header task i is killed (out of memory, a
\* signal) while the worker node lives on.  reject_on_worker_lost is not set,
\* so the node acknowledges the queue item even under acks_late and stores a
\* failure (WorkerLostError) for the task: it is not delivered again.
WorkerProcessLost(i) ==
    /\ child[i].pc \in Running
    /\ crashes < MaxCrashes
    /\ crashes' = crashes + 1
    /\ child' = [child EXCEPT ![i].pc = "raised",
                    ![i].ret = RaisedException(header[i].chunk_path,
                                               <<"WorkerLostError">>)]
    /\ aborted' = aborted \ {ChildId(i)}
    /\ UNCHANGED <<response, crypt, source, chunk_size, ppc, presult, splitLocals,
                   header, files, redis, chord_results, revoked, cancels>>
    /\ UNCHANGED callbackVars

(***************************************************************************)
(* aggregate_results.                                                      *)
(***************************************************************************)
\* x.get('input_path', '') or x.get('path', '')
SortKeyPath(res) == IF res.input_path # NoPath THEN res.input_path ELSE res.path

\* a key function whose pattern matches no path: every result gets the
\* fallback key
SortKey_NoMatch(res) == NoMatchIndex

\* the sort key of one result
SortKey(res) == ExtractChunkIndex(SortKeyPath(res))

RECURSIVE InsertSorted(_, _)
\* res is put after every element whose key is not greater (a stable sort)
InsertSorted(sorted, res) ==
    IF sorted = <<>> THEN <<res>>
    ELSE IF SortKey(Head(sorted)) <= SortKey(res)
         THEN <<Head(sorted)>> \o InsertSorted(Tail(sorted), res)
         ELSE <<res>> \o sorted

\* the results as they arrived, without the sort
Sorted_ArrivalOrder(results) == results

RECURSIVE Sorted(_)
\* sorted(results, key=...)
Sorted(results) ==
    IF results = <<>> THEN <<>>
    ELSE InsertSorted(Sorted(SubSeq(results, 1, Len(results) - 1)),
                      results[Len(results)])

\* "\n--- [ERROR IN CHUNK] ---\n"
ErrorMarker == <<"LF", "ERROR_IN_CHUNK", "LF">>

\* the piece one result contributes to combined_text
Piece(fs, res, password) ==
    IF res.status = "success" /\ res.result_path # NoPath
    THEN DecryptFile(fs, res.result_path, password)
    ELSE ErrorMarker

\* combined_text for the sorted results
CombinedText(fs, sorted_results, password) ==
    [k \in 1..Len(sorted_results) |-> Piece(fs, sorted_results[k], password)]

RECURSIVE JoinNewline(_)
\* "\n".join(pieces)
JoinNewline(pieces) ==
    IF pieces = <<>> THEN <<>>
    ELSE IF Len(pieces) = 1 THEN pieces[1]
    ELSE pieces[1] \o <<"LF">> \o JoinNewline(Tail(pieces))

\* final_content for a results list
FinalContent(fs, results, password) ==
    JoinNewline(CombinedText(fs, Sorted(results), password))

\* decrypt_file raised for one of the success results
DecryptFails(fs, results, password) ==
    \E k \in 1..Len(results) :
        Piece(fs, results[k], password) = DecryptRaises

\* A worker takes the callback from parent_queue and runs it to the end.
AggregateResults(iv) ==
    /\ cb_state = "queued"
    /\ agg_calls' = agg_calls + 1
    /\ LET original_task_id == callback.original_task_id
           encryption_password == callback.encryption_password
       IN  IF DecryptFails(files, cb_args, encryption_password)
           THEN /\ cb_state' = "failed"
                /\ UNCHANGED <<files, redis, cb_result>>
           ELSE /\ files' = WriteText(
                       EncryptAndSave(files,
                           FinalContent(files, cb_args, encryption_password),
                           FinalPath(original_task_id), encryption_password, iv),
                       LogPath(original_task_id), Sorted(cb_args))
                /\ redis' = Expire(Expire(redis, TotalKey(original_task_id),
                                          FinishedTtl),
                                   CompletedKey(original_task_id), FinishedTtl)
                /\ cb_result' = [status |-> "completed",
                                 final_file |-> FinalPath(original_task_id),
                                 log_file |-> LogPath(original_task_id),
                                 total_processed |-> Len(cb_args)]
                /\ cb_state' = "done"
    /\ UNCHANGED <<response, crypt, source, chunk_size, ppc, presult, splitLocals, crashes,
                   callback, cb_args>>
    /\ UNCHANGED <<workerVars, cancelVars>>

(***************************************************************************)
(* The cancel endpoint (main-Copy5.py): the task with the given id is      *)
(* marked ABORTED in the result backend and a revoke with terminate=True   *)
(* is broadcast to the workers.  A worker that has received the revoke     *)
(* drops the task when it is delivered, or kills the process running it;   *)
(* a worker that has not received it runs the task as usual.               *)
(***************************************************************************)
TaskIds == {JobId} \cup {ChildId(i) : i \in Children}

\* cancel_task
CancelTask(task_id) ==
    /\ cancels < MaxCancels
    /\ cancels' = cancels + 1
    /\ aborted' = aborted \cup {task_id}
    /\ revoked' = revoked \cup {task_id}
    /\ UNCHANGED <<response, crypt, source, chunk_size, ppc, presult, splitLocals, files, redis,
                   crashes>>
    /\ UNCHANGED <<workerVars, callbackVars>>

\* the revoke reaches the worker holding split_and_dispatch
ParentRevoked ==
    /\ JobId \in revoked
    /\ ppc \in {"queued", "split", "split_done", "init_completed", "chord", "map"}
    /\ ppc' = "revoked"
    /\ UNCHANGED <<response, crypt, source, chunk_size, presult, splitLocals, files, redis,
                   crashes>>
    /\ UNCHANGED <<workerVars, callbackVars, cancelVars>>

\* the revoke reaches the worker holding header task i: the task ends
\* without a result
ChildRevoked(i) ==
    /\ ChildId(i) \in revoked
    /\ child[i].pc \in Running \cup {"queued"}
    /\ child' = [child EXCEPT ![i].pc = "revoked"]
    /\ UNCHANGED <<response, crypt, source, chunk_size, ppc, presult, splitLocals, files, redis,
                   header, chord_results, crashes>>
    /\ UNCHANGED <<callbackVars, cancelVars>>

(***************************************************************************)
(* The HTTP front-end (main-Copy5.py): the download and status endpoints.  *)
(* Both read the result backend through AsyncResult: the state and the     *)
(* result stored for a task id.                                            *)
(***************************************************************************)
\* celery.states.READY_STATES
ReadyStates == {"SUCCESS", "FAILURE", "REVOKED"}

\* every header task has ended and one of them without a result: the chord
\* does not run its callback and stores a failure under the callback's id
ChordFailed ==
    /\ header # <<>>
    /\ \A i \in Children : child[i].pc \in {"done", "raised", "revoked"}
    /\ \E i \in Children : child[i].pc # "done"

\* AsyncResult(task_id).status, for the id of the callback and of the job
AsyncResultStatus(task_id) ==
    IF task_id = CallbackId
    THEN CASE cb_state = "done" -> "SUCCESS"
           [] cb_state = "failed" \/ ChordFailed -> "FAILURE"
           [] OTHER -> "PENDING"
    ELSE CASE ppc = "done" -> "SUCCESS"
           [] ppc = "failed" -> "FAILURE"
           [] ppc = "revoked" -> "REVOKED"
           [] task_id \in aborted -> "ABORTED"
           [] OTHER -> "PENDING"

\* AsyncResult(task_id).result: what the task returned
AsyncResultResult(task_id) == IF task_id = CallbackId THEN cb_result ELSE presult

\* the body of /status, before any key is set
NoJson ==
    [task_id |-> None, celery_status |-> "", progress |-> [status |-> "none"],
     has_download_url |-> FALSE, has_result |-> FALSE, result |-> NoResult]

\* no request has been answered yet
NoResponse ==
    [endpoint |-> "none", password |-> "", code |-> 0, detail |-> "",
     body |-> <<>>, json |-> NoJson]

\* raise HTTPException(status_code=code, detail=detail)
HttpException(password, code, detail) ==
    [NoResponse EXCEPT !.endpoint = "download", !.password = password,
                       !.code = code, !.detail = detail]

\* result_data.get("final_file") if isinstance(result_data, dict) else None
FinalFileOf(result_data) ==
    IF "final_file" \in DOMAIN result_data THEN result_data.final_file ELSE NoPath

\* what download_file answers
DownloadResponse(task_id, password) ==
    LET callback_id == GetCallbackId(redis, task_id)
        file_path_str == FinalFileOf(AsyncResultResult(callback_id))
        decrypted_content == DecryptFile(files, file_path_str, password)
    IN  IF AsyncResultStatus(callback_id) \notin ReadyStates
        THEN HttpException(password, 400, "Task is not finished yet.")
        ELSE IF AsyncResultStatus(callback_id) # "SUCCESS"
        THEN HttpException(password, 400, "Task failed or was cancelled.")
        ELSE IF file_path_str = NoPath \/ file_path_str \notin DOMAIN files
        THEN HttpException(password, 404, "Result file not found.")
        ELSE IF decrypted_content = DecryptRaises
        THEN HttpException(password, 401, "Decryption failed.")
        ELSE [NoResponse EXCEPT !.endpoint = "download", !.password = password,
                                !.code = 200,
                                !.body = Utf8Encode(decrypted_content)]

\* GET /download/{task_id}?password=...
DownloadFile(task_id, password) ==
    /\ response' = DownloadResponse(task_id, password)
    /\ UNCHANGED <<crypt, source, chunk_size, ppc, presult, splitLocals, files, redis,
                   crashes>>
    /\ UNCHANGED <<workerVars, callbackVars, cancelVars>>

\* what get_status answers
StatusResponse(task_id) ==
    LET callback_id == GetCallbackId(redis, task_id)
        finished == /\ AsyncResultStatus(callback_id) \in ReadyStates
                    /\ AsyncResultStatus(callback_id) = "SUCCESS"
    IN  [NoResponse EXCEPT
            !.endpoint = "status",
            !.code = 200,
            !.json = [task_id |-> task_id,
                      celery_status |-> AsyncResultStatus(task_id),
                      progress |-> GetTaskProgress(redis, task_id),
                      has_download_url |-> finished,
                      has_result |-> finished,
                      result |-> IF finished THEN AsyncResultResult(task_id)
                                 ELSE NoResult]]

\* GET /status/{task_id}
GetStatus(task_id) ==
    /\ response' = StatusResponse(task_id)
    /\ UNCHANGED <<crypt, source, chunk_size, ppc, presult, splitLocals, files, redis,
                   crashes>>
    /\ UNCHANGED <<workerVars, callbackVars, cancelVars>>

(***************************************************************************)
(* Specification of one job: a file has been uploaded and                  *)
(* split_and_dispatch queued for it.                                       *)
(***************************************************************************)
JobSources ==
    {NoFile, <<>>, <<"a", "LF">>, <<"a", "LF", "LF">>, <<"a", "CR", "LF", "U3">>}

JobChunkSize == 2

\* the frame of a caller that has not called encrypt_and_save yet
IdleCrypt ==
    [pc |-> "idle", content |-> <<>>, password |-> "", tried |-> "", out |-> <<>>]

InitCommon ==
    /\ response = NoResponse
    /\ crypt = IdleCrypt
    /\ callback = NoCallback
    /\ presult = NoResult
    /\ current_lines = <<>>
    /\ current_bytes = 0
    /\ chunk_idx = 0
    /\ chunk_paths = <<>>
    /\ files = EmptyFs
    /\ redis = EmptyRedis
    /\ header = <<>>
    /\ child = <<>>
    /\ chord_results = <<>>
    /\ cb_result = NoResult
    /\ agg_calls = 0
    /\ aborted = {}
    /\ revoked = {}
    /\ crashes = 0
    /\ cancels = 0

Init ==
    /\ source \in JobSources
    /\ chunk_size = JobChunkSize
    /\ ppc = "queued"
    /\ lines = <<>>
    /\ cb_state = "none"
    /\ cb_args = <<>>
    /\ InitCommon

Dispatcher ==
    \/ ParentStart
    \/ SplitLine
    \/ SplitFlushRest
    \/ InitTotal
    \/ InitCompleted
    \/ SubmitChord
    \/ StoreCallbackMap

Worker(i) ==
    \/ EntryCheck(i)
    \/ \E outcome \in InferenceOutcomes, iv \in IVs : CallInference(i, outcome, iv)
    \/ FinallyIncr(i)
    \/ ReturnResult(i)

Next ==
    \/ Dispatcher
    \/ \E i \in Children : Worker(i)
    \/ \E i \in Children : WorkerDies(i)
    \/ \E i \in Children : WorkerProcessLost(i)
    \/ \E i \in Children : IncrRaises(i)
    \/ \E iv \in IVs : AggregateResults(iv)
    \/ \E task_id \in TaskIds : CancelTask(task_id)
    \/ ParentRevoked
    \/ \E i \in Children : ChildRevoked(i)

Spec == Init /\ [][Next]_vars

(***************************************************************************)
(* Specification of one job together with the HTTP front-end: while the    *)
(* job runs, clients ask for its status and try to download its result,    *)
(* with the job's passphrase or with another one.                          *)
(***************************************************************************)
ApiSources == {<<>>, <<"a", "LF">>}

InitApi ==
    /\ source \in ApiSources
    /\ chunk_size = JobChunkSize
    /\ ppc = "queued"
    /\ lines = <<>>
    /\ cb_state = "none"
    /\ cb_args = <<>>
    /\ InitCommon

NextApi ==
    \/ Next
    \/ \E password \in Passwords : DownloadFile(JobId, password)
    \/ GetStatus(JobId)

SpecApi == InitApi /\ [][NextApi]_vars

(***************************************************************************)
(* Specification of the chunking loop alone: every source text of at most  *)
(* MaxDocLen characters, every chunk_size in 1..MaxChunkSize.              *)
(***************************************************************************)
RECURSIVE TextsUpTo(_)
TextsUpTo(n) ==
    IF n = 0 THEN {<<>>}
    ELSE LET shorter == TextsUpTo(n - 1)
         IN  shorter \cup {Append(t, c) : t \in {s \in shorter : Len(s) = n - 1},
                                          c \in Chars}

InitSplit ==
    /\ source \in TextsUpTo(MaxDocLen)
    /\ chunk_size \in 1..MaxChunkSize
    /\ ppc = "split"
    /\ lines = ReadLines(source)
    /\ cb_state = "none"
    /\ cb_args = <<>>
    /\ InitCommon

NextSplit == SplitLine \/ SplitFlushRest

SpecSplit == InitSplit /\ [][NextSplit]_vars

(***************************************************************************)
(* Specification of aggregate_results alone: the callback is queued with   *)
(* a results list of 1..MaxResults results of distinct chunks, in any      *)
(* arrival order; each result is one of the four dicts process_chunk       *)
(* returns, and a success result has its translation on disk.              *)
(***************************************************************************)
\* chunk numbers the results are drawn from; 10 sorts before 2 as a string
ChunkNumbers == {0, 1, 2, 10}

\* the stripped content of chunk n
ChunkContent(n) ==
    CASE n = 0 -> <<"a">>
      [] n = 1 -> <<"U3">>
      [] n = 2 -> <<"a", "a">>
      [] OTHER -> <<"U3", "a">>

\* the translation process_chunk saves for chunk n
TranslationOf(n) == Generated(FullPrompt(LangSettings, ChunkContent(n)))

\* the results process_chunk can return for chunk n
ResultsOf(n) ==
    LET chunk_path == ChunkPath(JobId, n)
    IN  {SuccessResult(chunk_path, WithSuffixTranslatedEnc(chunk_path)),
         ErrorResult(chunk_path, <<"RequestException">>),
         AbortedResult(chunk_path),
         EmptyResult(chunk_path)}

RECURSIVE NumberLists(_)
\* the lists of n distinct chunk numbers
NumberLists(n) ==
    IF n = 0 THEN {<<>>}
    ELSE {Append(ns, c) : ns \in NumberLists(n - 1), c \in ChunkNumbers}
         \ {Append(ns, ns[k]) : ns \in NumberLists(n - 1), k \in 1..(n - 1)}

RECURSIVE ResultLists(_)
\* the results lists for the chunks numbered ns, in that order
ResultLists(ns) ==
    IF ns = <<>> THEN {<<>>}
    ELSE {<<res>> \o rs : res \in ResultsOf(Head(ns)),
                          rs \in ResultLists(Tail(ns))}

RECURSIVE SaveTranslations(_, _, _)
\* the file system after the success results of the list were saved
SaveTranslations(fs, results, iv) ==
    IF results = <<>> THEN fs
    ELSE LET res == Head(results)
             rest == SaveTranslations(fs, Tail(results), iv)
         IN  IF res.status = "success"
             THEN EncryptAndSave(rest,
                      TranslationOf(ExtractChunkIndex(res.input_path)),
                      res.result_path, Password, iv)
             ELSE rest

InitAggregate ==
    /\ response = NoResponse
    /\ crypt = IdleCrypt
    /\ callback = AggregateResultsSignature(JobId, Password, CallbackId)
    /\ source = NoFile
    /\ chunk_size = JobChunkSize
    /\ ppc = "done"
    /\ presult = NoResult
    /\ lines = <<>>
    /\ current_lines = <<>>
    /\ current_bytes = 0
    /\ chunk_idx = 0
    /\ chunk_paths = <<>>
    /\ redis = EmptyRedis
    /\ header = <<>>
    /\ child = <<>>
    /\ chord_results = <<>>
    /\ cb_state = "queued"
    /\ \E n \in 1..MaxResults : \E ns \in NumberLists(n) :
          cb_args \in ResultLists(ns)
    /\ \E iv \in IVs : files = SaveTranslations(EmptyFs, cb_args, iv)
    /\ cb_result = NoResult
    /\ agg_calls = 0
    /\ aborted = {}
    /\ revoked = {}
    /\ crashes = 0
    /\ cancels = 0

NextAggregate == \E iv \in IVs : AggregateResults(iv)

SpecAggregate == InitAggregate /\ [][NextAggregate]_vars

(***************************************************************************)
(* Specification of the ordering in aggregate_results: the callback is     *)
(* queued with 1..MaxResults different results, none of them a success,    *)
(* some about chunks with small and with very large numbers and some whose *)
(* path is not the path of a chunk file.                                   *)
(***************************************************************************)
\* chunk numbers below, at and above the key of a path that does not match
SortNumbers == {2, 10, NoMatchIndex, NoMatchIndex + 1}

\* results whose path the pattern of _extract_chunk_index does not match:
\* they name a .translated.enc file
UnmatchedResults ==
    {ErrorResult(WithSuffixTranslatedEnc(ChunkPath(JobId, n)), <<"OSError">>) :
        n \in {0, 1}}

\* the results the lists are drawn from
SortPool ==
    {ErrorResult(ChunkPath(JobId, n), <<"RequestException">>) : n \in SortNumbers}
    \cup UnmatchedResults

RECURSIVE DistinctLists(_, _)
\* the lists of n different elements of pool
DistinctLists(n, pool) ==
    IF n = 0 THEN {<<>>}
    ELSE {Append(rs, res) : rs \in DistinctLists(n - 1, pool), res \in pool}
         \ {Append(rs, rs[k]) : rs \in DistinctLists(n - 1, pool), k \in 1..(n - 1)}

InitSort ==
    /\ response = NoResponse
    /\ crypt = IdleCrypt
    /\ callback = AggregateResultsSignature(JobId, Password, CallbackId)
    /\ source = NoFile
    /\ chunk_size = JobChunkSize
    /\ ppc = "done"
    /\ presult = NoResult
    /\ lines = <<>>
    /\ current_lines = <<>>
    /\ current_bytes = 0
    /\ chunk_idx = 0
    /\ chunk_paths = <<>>
    /\ redis = EmptyRedis
    /\ header = <<>>
    /\ child = <<>>
    /\ chord_results = <<>>
    /\ cb_state = "queued"
    /\ \E n \in 1..MaxResults : cb_args \in DistinctLists(n, SortPool)
    /\ files = EmptyFs
    /\ cb_result = NoResult
    /\ agg_calls = 0
    /\ aborted = {}
    /\ revoked = {}
    /\ crashes = 0
    /\ cancels = 0

NextSort == \E iv \in IVs : AggregateResults(iv)

SpecSort == InitSort /\ [][NextSort]_vars

(***************************************************************************)
(* Specification of one job on a store that reclaims keys: the job of     *)
(* SpecApi, and a key that was given an expiry is deleted by the store     *)
(* when the expiry has run out.  Time is not counted: a key with an expiry *)
(* may run out at any moment, a key without one never does.                *)
(***************************************************************************)
\* the keys split_and_dispatch writes with setex
ExpiringKeys == {TotalKey(JobId), CompletedKey(JobId), CallbackMapKey(JobId)}

\* The store deletes a key whose expiry has run out.
KeyExpires(key) ==
    /\ redis[key] # NoKey
    /\ redis[key].ttl # -1
    /\ redis' = [redis EXCEPT ![key] = NoKey]
    /\ UNCHANGED <<response, crypt, source, chunk_size, ppc, presult, splitLocals,
                   files, crashes>>
    /\ UNCHANGED <<workerVars, callbackVars, cancelVars>>

NextTtl ==
    \/ Next
    \/ \E key \in ExpiringKeys : KeyExpires(key)

SpecTtl == InitApi /\ [][NextTtl]_vars

(***************************************************************************)
(* Specification of the encryption helpers alone: a caller saves a text    *)
(* with encrypt_and_save under a passphrase and then reads the file with   *)
(* decrypt_file under the same or another passphrase.  The texts have 0 to *)
(* MaxPlainLen characters, so that their bytes fall short of a block, fill *)
(* it exactly and run over it.                                             *)
(***************************************************************************)
RECURSIVE Repeat(_, _)
Repeat(c, n) == IF n = 0 THEN <<>> ELSE <<c>> \o Repeat(c, n - 1)

PlainTexts ==
    {Repeat("a", n) : n \in 0..MaxPlainLen}
    \cup {Repeat("U3", n) \o tail :
             n \in 0..(MaxPlainLen \div 3), tail \in {<<>>, <<"LF">>, <<"a">>}}

\* encrypt_and_save(content, file_path, password)
EncryptCall(content, password, iv) ==
    /\ crypt.pc = "idle"
    /\ files' = EncryptAndSave(files, content, FinalPath(JobId), password, iv)
    /\ crypt' = [crypt EXCEPT !.pc = "saved", !.content = content,
                              !.password = password]
    /\ UNCHANGED <<response, source, chunk_size, ppc, presult, splitLocals, redis,
                   crashes>>
    /\ UNCHANGED <<workerVars, callbackVars, cancelVars>>

\* decrypt_file(file_path, password)
DecryptCall(password) ==
    /\ crypt.pc = "saved"
    /\ crypt' = [crypt EXCEPT !.pc = "read", !.tried = password,
                              !.out = DecryptFile(files, FinalPath(JobId), password)]
    /\ UNCHANGED <<response, source, chunk_size, ppc, presult, splitLocals, files,
                   redis, crashes>>
    /\ UNCHANGED <<workerVars, callbackVars, cancelVars>>

InitCrypto ==
    /\ source = NoFile
    /\ chunk_size = JobChunkSize
    /\ ppc = "done"
    /\ lines = <<>>
    /\ cb_state = "none"
    /\ cb_args = <<>>
    /\ InitCommon

NextCrypto ==
    \/ \E content \in PlainTexts, password \in Passwords, iv \in IVs :
          EncryptCall(content, password, iv)
    \/ \E password \in Passwords : DecryptCall(password)

SpecCrypto == InitCrypto /\ [][NextCrypto]_vars

(***************************************************************************)
(* Properties of the chunking loop (specification SpecSplit).              *)
(***************************************************************************)
SplitDone == ppc = "split_done"

\* the chunk files in the order of chunk_paths
ChunkTexts == [k \in 1..Len(chunk_paths) |-> files[chunk_paths[k]]]

\* the lines of chunk number k - 1
ChunkLines(k) == ReadLines(ChunkTexts[k])

\* the lines of the source
SourceLines == ReadLines(source)

RECURSIVE LinesBefore(_)
\* how many lines the chunks before position k hold together
LinesBefore(k) == IF k = 1 THEN 0 ELSE LinesBefore(k - 1) + Len(ChunkLines(k - 1))

\* the chunks are numbered 0..N-1 in the order they were written, and they
\* are the only files written
NumberedInOrder ==
    /\ \A k \in 1..Len(chunk_paths) :
          /\ chunk_paths[k] = ChunkPath(JobId, k - 1)
          /\ ExtractChunkIndex(chunk_paths[k]) = k - 1
    /\ DOMAIN files = {chunk_paths[k] : k \in 1..Len(chunk_paths)}

\* C5: Chunk reassembly: once split_and_dispatch has written the chunks of a
\* source document, they are numbered 0..N-1 in source order and their
\* concatenation in index order is the document, character for character.
C5_ReassemblyExact ==
    SplitDone => /\ NumberedInOrder
                 /\ Join(ChunkTexts) = source

\* C6: Every chunk file written holds at least one line, and an empty
\* source leaves no chunk at all.
C6_NoEmptyChunk ==
    /\ \A k \in 1..Len(chunk_paths) : Len(ChunkLines(k)) >= 1
    /\ (SplitDone /\ source = <<>>) => (chunk_paths = <<>> /\ files = EmptyFs)

\* a source whose first line alone exceeds chunk_size, split in two or
\* more chunks
C6_Witness ==
    /\ SplitDone
    /\ Len(chunk_paths) >= 2
    /\ LineBytes(SourceLines[1]) > chunk_size

\* the example of the specification: three lines of 40 bytes, chunk_size 50
ExampleLine == [k \in 1..40 |-> IF k = 40 THEN "LF" ELSE "a"]

ExampleSplit ==
    LET st0 == [current_lines |-> <<>>, current_bytes |-> 0, chunk_idx |-> 0,
                chunk_paths |-> <<>>, files |-> EmptyFs]
        st1 == LoopStep(st0, ExampleLine, 50, JobId)
        st2 == LoopStep(st1, ExampleLine, 50, JobId)
        st3 == LoopStep(st2, ExampleLine, 50, JobId)
        end == FlushRest(st3, JobId)
    IN  [k \in 1..Len(end.chunk_paths) |-> end.files[end.chunk_paths[k]]]

\* C7: Chunk size bound: a chunk of two or more lines has at most
\* chunk_size bytes; a chunk of more than chunk_size bytes is a single line
\* that alone exceeds chunk_size; three 40-byte lines with chunk_size 50
\* give three one-line chunks.
C7_ChunkSizeBound ==
    /\ \A k \in 1..Len(chunk_paths) :
          /\ Len(ChunkLines(k)) >= 2 => Utf8Bytes(ChunkTexts[k]) <= chunk_size
          /\ Utf8Bytes(ChunkTexts[k]) > chunk_size =>
                /\ Len(ChunkLines(k)) = 1
                /\ Utf8Bytes(ChunkLines(k)[1]) > chunk_size
    /\ ExampleSplit = <<ExampleLine, ExampleLine, ExampleLine>>

\* a chunk of two lines next to an oversized chunk that holds a multi-byte
\* character
C7_Witness ==
    /\ SplitDone
    /\ \E k \in 1..Len(chunk_paths) : Len(ChunkLines(k)) >= 2
    /\ \E k \in 1..Len(chunk_paths) :
          /\ Utf8Bytes(ChunkTexts[k]) > chunk_size
          /\ Utf8Bytes(ChunkTexts[k]) > Len(ChunkTexts[k])

\* the position in chunk_paths of the chunk that holds source line n
ChunkOfLine(n) ==
    CHOOSE k \in 1..Len(chunk_paths) :
        LinesBefore(k) < n /\ n <= LinesBefore(k) + Len(ChunkLines(k))

\* C8: Oversized line isolation: a source line of more than chunk_size
\* bytes is, whole and alone, the content of exactly one chunk.
C8_OversizedLineAlone ==
    SplitDone =>
        \A n \in 1..Len(SourceLines) :
            Utf8Bytes(SourceLines[n]) > chunk_size =>
                /\ \E k \in 1..Len(chunk_paths) :
                      LinesBefore(k) < n /\ n <= LinesBefore(k) + Len(ChunkLines(k))
                /\ ChunkTexts[ChunkOfLine(n)] = SourceLines[n]
                /\ LinesBefore(ChunkOfLine(n)) = n - 1

\* an oversized line between two other lines
C8_Witness ==
    /\ SplitDone
    /\ \E n \in 2..(Len(SourceLines) - 1) :
          Utf8Bytes(SourceLines[n]) > chunk_size

(***************************************************************************)
(* Properties of aggregate_results (specification SpecAggregate).          *)
(***************************************************************************)
\* the results list in the arrival order given by permutation p
Permuted(results, p) == [k \in 1..Len(results) |-> results[p[k]]]

\* the chunk number written in the name of the chunk a result is about
ChunkNumberOf(res) == FromDigits(SortKeyPath(res).digits)

\* the combined text aggregate_results has saved
SavedFinalText == DecryptFile(files, FinalPath(JobId), Password)

\* C9: deterministic reordering.  Once aggregate_results has run on a
\* results list, the combined text it saved is the text it produces for every
\* permutation of that list, the sorted log is the same for every permutation,
\* and the pieces stand in ascending order of chunk number whatever the
\* arrival order was.
C9_PermutationInvariant ==
    cb_state = "done" =>
        /\ \A p \in Permutations(1..Len(cb_args)) :
              /\ FinalContent(files, Permuted(cb_args, p), Password) = SavedFinalText
              /\ Sorted(Permuted(cb_args, p)) = files[LogPath(JobId)]
        /\ \A k \in 1..(Len(cb_args) - 1) :
              ChunkNumberOf(files[LogPath(JobId)][k])
                  < ChunkNumberOf(files[LogPath(JobId)][k + 1])
        /\ SavedFinalText =
              JoinNewline([k \in 1..Len(cb_args) |->
                              Piece(files, files[LogPath(JobId)][k], Password)])

\* aggregate_results has run on three results that arrived out of order,
\* chunk 10 before chunk 2, a success among them and a failure
C9_Witness ==
    /\ cb_state = "done"
    /\ Len(cb_args) = 3
    /\ \E j, k \in 1..3 :
          /\ j < k
          /\ ChunkNumberOf(cb_args[j]) = 10
          /\ ChunkNumberOf(cb_args[k]) = 2
          /\ cb_args[j].status = "success"
          /\ cb_args[k].status # "success"

(***************************************************************************)
(* Properties of a job (specification Spec).                               *)
(***************************************************************************)
\* the counters as get_task_progress reads them
Total == GetTaskProgress(redis, JobId).total
Completed ==
    IF Get(redis, CompletedKey(JobId)) = None THEN 0
    ELSE FromDigits(Get(redis, CompletedKey(JobId)))

\* every header task has returned and reported its result
AllReported == header # <<>> /\ \A i \in Children : child[i].pc = "done"

\* the callback has been handed to a worker queue or has run
CallbackInvoked == cb_state \in {"queued", "done", "failed"}

Statuses == {"success", "error", "aborted", "empty"}

\* the results list holds exactly one result for every chunk of the header
OnePerChunk(results) ==
    /\ Len(results) = Len(header)
    /\ \A i \in Children :
          Cardinality({k \in 1..Len(results) :
                          SortKeyPath(results[k]) = header[i].chunk_path}) = 1
    /\ \A k \in 1..Len(results) : results[k].status \in Statuses

C2_CompletedWithinTotal ==
    /\ [][Completed' >= Completed]_vars
    /\ [](Get(redis, TotalKey(JobId)) # None => Completed <= Total)

\* C3: when every process_chunk execution of the job has finished, and so
\* whenever aggregate_results runs, completed equals total, the number of
\* chunks.
C3_CompletedEqualsTotal ==
    (AllReported \/ CallbackInvoked) =>
        Total = Len(header) /\ Completed = Total

\* the increments the current execution of header task i has made are
\* those its position calls for
IncrsAt(i) ==
    /\ child[i].pc \in {"queued", "call", "finally"} => child[i].incrs = 0
    /\ child[i].pc \in {"return", "done"} =>
          child[i].incrs = 1 /\ child[i].ret.status \in Statuses

\* the step in which the execution of header task i returns
Returns(i) == child[i].pc \in {"queued", "call", "finally"} /\ child'[i].pc = "return"

\* C4: every execution of process_chunk increments completed exactly once,
\* as its last action before it returns, whichever of the statuses it returns:
\* an execution that has not returned has not incremented, the step in which
\* it returns adds one to the counter, and no other step adds anything.
C4_IncrementOnceAtEnd ==
    /\ [](\A i \in Children : IncrsAt(i))
    /\ [][\A i \in Children' \cap Children :
              Returns(i) => Completed' = Completed + 1]_vars
    /\ [][Completed' # Completed =>
              \E i \in Children' \cap Children : Returns(i)]_vars

\* every execution has returned, one with success or empty and one with
\* error after an exception of the inference call
C4_Witness ==
    /\ AllReported
    /\ \E i, j \in Children :
          /\ child[i].ret.status \in {"success", "empty"}
          /\ child[j].ret.status = "error" /\ child[j].calls = 1
          /\ child[i].incrs = 1 /\ child[j].incrs = 1

\* the abort flag of header task i as the result backend holds it
AbortFlagSet(i) == ChildId(i) \in aborted

\* the step in which a worker starts the execution of header task i
Starts(i) == child[i].pc = "queued" /\ child'[i].pc \in Running

\* C10: an execution that finds the abort flag set when it reaches the entry
\* check returns status aborted having incremented completed once and without
\* a call to the inference service; its result counts for the barrier like any
\* other, so that once all have reported the callback has been handed to the
\* workers with the aborted result in its list.
C10_AbortAtEntry ==
    /\ [][\A i \in Children' \cap Children :
              (Starts(i) /\ AbortFlagSet(i)) =>
                  /\ child'[i].pc = "return"
                  /\ child'[i].ret.status = "aborted"
                  /\ child'[i].calls = 0
                  /\ child'[i].incrs = 1
                  /\ Completed' = Completed + 1]_vars
    /\ [](\A i \in Children :
              child[i].ret.status = "aborted" =>
                  /\ child[i].calls = 0 /\ child[i].incrs = 1
                  /\ (child[i].pc = "done" =>
                        \E k \in 1..Len(chord_results) :
                            chord_results[k] = child[i].ret))
    /\ [](\A i \in Children :
              (AllReported /\ child[i].ret.status = "aborted") =>
                  /\ CallbackInvoked
                  /\ \E k \in 1..Len(cb_args) : cb_args[k] = child[i].ret)

\* aggregate_results has run for a job one of whose chunks was aborted at
\* entry and another translated
C10_Witness ==
    /\ cb_state = "done"
    /\ \E i, j \in Children :
          /\ child[i].ret.status = "aborted"
          /\ child[j].ret.status = "success"
          /\ \E k \in 1..Len(cb_args) : cb_args[k] = child[i].ret

\* cancel_task has been called with the id of the job
JobCancelled == JobId \in revoked

\* C11: the abort flag is job-level.  Once cancel has been called with the
\* job's id, every execution of process_chunk of that job that starts
\* afterwards finds is_aborted() true at the entry check: it returns status
\* aborted and makes no call to the inference service.
C11_JobLevelAbortFlag ==
    [][\A i \in Children' \cap Children :
          (Starts(i) /\ JobCancelled) =>
              /\ child'[i].pc = "return"
              /\ child'[i].ret.status = "aborted"
              /\ child'[i].calls = 0]_vars

\* header tasks that can still take a step
LiveChildren == {i \in Children : child[i].pc \in Running \cup {"queued"}}

\* C12: cancellation never deadlocks the fan-in.  For a job whose chord has
\* been dispatched and none of whose header tasks has failed, whatever cancel
\* requests have been made, no header task ends without reporting, and as
\* long as the callback has not been handed to the workers some header task
\* can still take a step towards its report.
C12_CancelNeverDeadlocks ==
    (cb_state # "none" /\ \A i \in Children : child[i].pc # "raised") =>
        /\ \A i \in Children : child[i].pc # "revoked"
        /\ cb_state = "waiting" => LiveChildren # {}

\* C13: chunk-level failures are contained.  No execution of process_chunk
\* ends with an exception leaving the function, whatever fails in it; a
\* failure is returned as a result of status error that carries a message.
C13_FailuresContained ==
    \A i \in Children :
        /\ child[i].pc # "raised"
        /\ child[i].ret.status # "raised"
        /\ child[i].ret.status = "error" => child[i].ret.message # None

\* C14: a request exception of the inference call is retried.  A chunk ends
\* with an error result for a request exception only after max_retries
\* retries of its task.
C14_RetriedBeforeError ==
    \A i \in Children :
        (child[i].ret.status = "error"
            /\ child[i].ret.message = <<"RequestException">>) =>
                child[i].retries = MaxRetries

(***************************************************************************)
(* Properties of the encryption helpers (specification SpecCrypto).        *)
(***************************************************************************)
\* C15: round trip.  For every text and passphrase, decrypt_file applied to
\* the file encrypt_and_save wrote, under the same passphrase, returns the
\* text that was saved.
C15_RoundTrip ==
    (crypt.pc = "read" /\ crypt.tried = crypt.password) =>
        crypt.out = crypt.content

\* a text with a three-byte character whose bytes fill one block exactly has
\* been saved and read back under the same passphrase
C15_Witness ==
    /\ crypt.pc = "read"
    /\ crypt.tried = crypt.password
    /\ Utf8Bytes(crypt.content) = BlockBytes
    /\ \E k \in 1..Len(crypt.content) : crypt.content[k] = "U3"

\* C16: a wrong passphrase is detected.  decrypt_file under a passphrase
\* other than the one the file was encrypted under raises an error; it never
\* returns a text.
C16_WrongPassphraseDetected ==
    (crypt.pc = "read" /\ crypt.tried # crypt.password) =>
        crypt.out = DecryptRaises

(***************************************************************************)
(* Properties of split_and_dispatch (specification Spec).                  *)
(***************************************************************************)
\* nothing has been created for the job beyond its chunk files: no progress
\* record, no header task, no callback, no callback mapping
NothingDispatched ==
    /\ redis = EmptyRedis
    /\ header = <<>>
    /\ child = <<>>
    /\ chord_results = <<>>
    /\ callback = NoCallback
    /\ cb_state = "none"
    /\ agg_calls = 0

\* C17: a source that yields zero chunks.  Once the split has ended without
\* a chunk, split_and_dispatch has returned a skipped result, and it has
\* created no progress record, no header task, no callback and no callback
\* mapping.
C17_ZeroChunksSkipped ==
    /\ (ppc \in {"init_completed", "chord", "map", "done"} /\ chunk_paths = <<>>) =>
          ppc = "done" /\ presult.status = "skipped"
    /\ presult.status = "skipped" =>
          chunk_paths = <<>> /\ files = EmptyFs /\ NothingDispatched

\* split_and_dispatch has returned skipped for an empty source file
C17_Witness == presult.status = "skipped" /\ source = <<>> /\ ppc = "done"

\* C18: a source path that does not exist.  split_and_dispatch fails, and
\* no chunk file, progress record, header task, callback or callback mapping
\* is ever created for the job.
C18_MissingSourceFails ==
    source = NoFile =>
        /\ ppc \in {"queued", "failed", "revoked"}
        /\ presult = NoResult
        /\ chunk_paths = <<>>
        /\ files = EmptyFs
        /\ NothingDispatched

\* split_and_dispatch has failed on a missing source
C18_Witness == source = NoFile /\ ppc = "failed"

\* the chord has been submitted
ChordSubmitted == ppc \in {"map", "done"} /\ chunk_paths # <<>>

\* C19: a source with N >= 1 chunks.  Before the chord is submitted total is
\* N and completed is 0, both with the long expiry; the chord has N header
\* tasks, one per chunk path in order, all with the job's id and passphrase,
\* and one callback with the same id and passphrase; the callback's id is
\* stored under callback_map and returned together with total_chunks = N.
C19_DispatchComplete ==
    /\ ppc = "chord" =>
          /\ Len(chunk_paths) >= 1
          /\ redis[TotalKey(JobId)] =
                [exists |-> TRUE, val |-> ToDigits(Len(chunk_paths)),
                 ttl |-> ProgressTtl]
          /\ redis[CompletedKey(JobId)] =
                [exists |-> TRUE, val |-> ToDigits(0), ttl |-> ProgressTtl]
          /\ header = <<>> /\ child = <<>> /\ callback = NoCallback
    /\ ChordSubmitted =>
          /\ Total = Len(chunk_paths)
          /\ Len(header) = Len(chunk_paths)
          /\ DOMAIN child = DOMAIN header
          /\ \A k \in 1..Len(header) :
                /\ header[k].chunk_path = chunk_paths[k]
                /\ header[k].original_task_id = JobId
                /\ header[k].encryption_password = Password
          /\ callback = AggregateResultsSignature(JobId, Password, CallbackId)
    /\ (ppc = "done" /\ chunk_paths # <<>>) =>
          /\ presult.status = "dispatched"
          /\ presult.parent_task_id = JobId
          /\ presult.total_chunks = Len(chunk_paths)
          /\ presult.callback_task_id = callback.id
          /\ Get(redis, CallbackMapKey(JobId)) = callback.id

\* split_and_dispatch has returned for a source of two chunks
C19_Witness ==
    /\ ppc = "done"
    /\ presult.status = "dispatched"
    /\ presult.total_chunks = 2
    /\ Len(header) = 2

\* the callback mapping of the job, or NoKey
CallbackMapping == redis[CallbackMapKey(JobId)]

\* C20: get_callback_id returns the callback's id recorded at dispatch when
\* the mapping exists and the job's own id when it does not; the mapping,
\* once written, is never changed.
C20_CallbackIdLookup ==
    /\ [](/\ CallbackMapping # NoKey =>
                GetCallbackId(redis, JobId) = callback.id /\ callback.id = CallbackId
          /\ CallbackMapping = NoKey => GetCallbackId(redis, JobId) = JobId)
    /\ [][CallbackMapping # NoKey => CallbackMapping' = CallbackMapping]_vars

\* the mapping is read after aggregate_results has run
C20_Witness == CallbackMapping # NoKey /\ cb_state = "done"

\* the messages the dispatcher has put on the queues: the header tasks'
\* signatures and the callback's
QueueMessagePasswords ==
    {header[k].encryption_password : k \in 1..Len(header)}
    \cup (IF callback = NoCallback THEN {} ELSE {callback.encryption_password})

\* C23: the job's passphrase is never written in plaintext to a durable
\* medium: no message on a queue carries it.
C23_PassphraseNeverStored == Password \notin QueueMessagePasswords

\* the chunks for which an execution has incremented the counter and has
\* not been executed again since
CountedChunks == {i \in Children : child[i].incrs >= 1}

\* C24: progress counting is per logical chunk.  However often a chunk is
\* executed, completed counts it once: completed is the number of chunks
\* counted so far and never exceeds the number of chunks.
C24_CountedOncePerChunk ==
    /\ Completed = Cardinality(CountedChunks)
    /\ Completed <= Len(header)

\* the step in which the worker running header task i dies mid-task
DiesRunning(i) == child[i].pc \in Running /\ crashes' = crashes + 1

\* C25: a chunk whose worker dies mid-task is not lost.  Its queue item has
\* not been acknowledged, so the step in which the worker dies leaves the
\* task queued again, to be executed anew and to yield its result.
C25_RedeliveredAfterDeath ==
    [][\A i \in Children' \cap Children :
          (DiesRunning(i) /\ child'[i] # child[i]) => child'[i].pc = "queued"]_vars

\* the execution of header task i has passed the entry check and stands
\* before the call to the inference service
BeforeCall(i) == child[i].pc = "call"

\* C26: the abort flag is checked again immediately before the inference
\* call.  An execution that stands before the call with its abort flag set
\* does not call the inference service.
C26_SecondCheckpoint ==
    [][\A i \in Children' \cap Children :
          (BeforeCall(i) /\ AbortFlagSet(i)) =>
              child'[i].calls = child[i].calls]_vars

\* the inference call of the current execution of header task i failed at
\* application level: the service answered, with a body that cannot be decoded
AppFailure(i) ==
    /\ child[i].ret.status \in {"error", "raised"}
    /\ child[i].ret.message = <<"JSONDecodeError">>

\* C27: an application-level failure of the inference call is never
\* retried.  The execution that met it made one call, ends with a result of
\* status error, and its task is neither retried nor executed again; the
\* error result is what the chunk reports.
C27_AppFailureNotRetried ==
    \A i \in Children :
        AppFailure(i) =>
            /\ child[i].ret.status = "error"
            /\ child[i].retries = 0
            /\ child[i].calls = 1
            /\ child[i].pc \notin {"queued", "call", "raised"}
            /\ child[i].pc = "done" =>
                  \E k \in 1..Len(chord_results) : chord_results[k] = child[i].ret

\* aggregate_results has run on the error result of a chunk whose inference
\* call got an undecodable answer
C27_Witness ==
    /\ cb_state = "done"
    /\ \E i \in Children :
          /\ AppFailure(i)
          /\ child[i].pc = "done"
          /\ \E k \in 1..Len(cb_args) : cb_args[k] = child[i].ret

\* the text holds nothing but line terminators
OnlyWhitespace(text) == \A k \in 1..Len(text) : text[k] \in Whitespace

\* the chunk of header task i is empty after trimming
EmptyChunk(i) == OnlyWhitespace(files[header[i].chunk_path])

\* the result artifact of header task i exists
ResultArtifactExists(i) ==
    WithSuffixTranslatedEnc(header[i].chunk_path) \in DOMAIN files

\* C28: a chunk that is empty after trimming.  An execution that passes the
\* entry check on such a chunk goes to its end with status empty and without
\* a call to the inference service; a result of status empty is only ever
\* given for such a chunk, no result artifact exists for it, and completed
\* is incremented once, when the execution leaves through the finally block.
C28_EmptyChunkSkipped ==
    /\ [][\A i \in Children' \cap Children :
              (Starts(i) /\ EmptyChunk(i) /\ ~AbortFlagSet(i)) =>
                  /\ child'[i].pc = "finally"
                  /\ child'[i].ret.status = "empty"
                  /\ child'[i].calls = 0]_vars
    /\ [](\A i \in Children :
              child[i].ret.status = "empty" =>
                  /\ EmptyChunk(i)
                  /\ child[i].calls = 0
                  /\ ~ResultArtifactExists(i)
                  /\ child[i].pc = "finally" => child[i].incrs = 0
                  /\ child[i].pc \in {"return", "done"} => child[i].incrs = 1)
    /\ [][\A i \in Children' \cap Children :
              (child[i].ret.status = "empty" /\ child[i].pc = "finally"
                  /\ child'[i].pc = "return") => Completed' = Completed + 1]_vars

\* aggregate_results has run for a job with an empty chunk next to a
\* translated one
C28_Witness ==
    /\ cb_state = "done"
    /\ \E i, j \in Children :
          /\ child[i].ret.status = "empty" /\ child[i].pc = "done"
          /\ child[j].ret.status = "success"

\* the translation of the chunk at chunk_path, as the service generates it
\* for the chunk's trimmed content
TranslationAt(chunk_path, lang_settings) ==
    Generated(FullPrompt(lang_settings, Strip(ReadText(files, chunk_path))))

\* res has a result_path exactly if it is a success result, and then that
\* path is the artifact of the chunk at chunk_path: a file encrypted under
\* the job's passphrase that holds the chunk's translation
WellFormedResult(res, chunk_path, lang_settings) ==
    /\ res.result_path # NoPath <=> res.status = "success"
    /\ res.status = "success" =>
          /\ res.input_path = chunk_path
          /\ res.result_path = WithSuffixTranslatedEnc(chunk_path)
          /\ res.result_path \in DOMAIN files
          /\ files[res.result_path].key = GetCipherKey(Password)
          /\ DecryptFile(files, res.result_path, Password) =
                TranslationAt(chunk_path, lang_settings)

\* C29: a result of status success means a persisted artifact.  Every result
\* an execution is about to return or has reported carries a result_path
\* exactly if its status is success, and for a success result the file at
\* result_path exists by then, is encrypted under the job's passphrase and
\* decrypts to the translation of the chunk.
C29_SuccessMeansPersisted ==
    /\ \A i \in Children :
          child[i].ret.status \in Statuses =>
              WellFormedResult(child[i].ret, header[i].chunk_path,
                               header[i].lang_settings)
    /\ \A k \in 1..Len(chord_results) :
          \E i \in Children :
              /\ SortKeyPath(chord_results[k]) = header[i].chunk_path
              /\ WellFormedResult(chord_results[k], header[i].chunk_path,
                                  header[i].lang_settings)

\* a success result has been reported to the chord while another chunk ended
\* in error
C29_Witness ==
    \E i, j \in Children :
        /\ child[i].pc = "done" /\ child[i].ret.status = "success"
        /\ child[j].ret.status = "error"

\* the file at path p is created or changed by the step
Written(p) == p \in DOMAIN files' /\ (p \notin DOMAIN files \/ files'[p] # files[p])

\* the result file of header task i
ResultPath(i) == WithSuffixTranslatedEnc(header[i].chunk_path)

DiagnosticLog == files[LogPath(JobId)]

\* the texts of the job that must stay secret: the translation of every
\* chunk and what the result artifacts decrypt to
ClearTexts ==
    {TranslationAt(header[i].chunk_path, header[i].lang_settings) : i \in Children}
        \cup {DecryptFile(files, ResultPath(i), Password) :
                  i \in {j \in Children : ResultPath(j) \in DOMAIN files}}

\* C33: the diagnostic log.  Once aggregate_results has run, the log holds
\* one entry per chunk of the job, entry k is the result the task of chunk
\* k - 1 reported (its status, paths and message unchanged), the entries
\* are in ascending chunk index order, and no entry carries a translation:
\* a message is never one of the job's clear texts.
C33_LogHoldsResults ==
    cb_state = "done" =>
        /\ LogPath(JobId) \in DOMAIN files
        /\ Len(DiagnosticLog) = Len(header)
        /\ \A k \in 1..Len(DiagnosticLog) :
              /\ ChunkNumberOf(DiagnosticLog[k]) = k - 1
              /\ DiagnosticLog[k] = child[k].ret
              /\ DiagnosticLog[k].message = child[k].ret.message
              /\ DiagnosticLog[k].message \notin ClearTexts
        /\ \A k, l \in 1..Len(DiagnosticLog) :
              k < l => ChunkNumberOf(DiagnosticLog[k]) < ChunkNumberOf(DiagnosticLog[l])

\* a log of two chunks that arrived out of order, one translated and one
\* failed with a message
C33_Witness ==
    /\ cb_state = "done"
    /\ Len(cb_args) = 2
    /\ ChunkNumberOf(cb_args[1]) = 1
    /\ \E k, l \in 1..Len(DiagnosticLog) :
          /\ DiagnosticLog[k].status = "success"
          /\ DiagnosticLog[l].status = "error"
          /\ DiagnosticLog[l].message # None

\* the step writes the `completed` key and is not the dispatcher's setex:
\* an increment of process_chunk
IncrementStep ==
    /\ redis'[CompletedKey(JobId)] # NoKey
    /\ redis[CompletedKey(JobId)] = NoKey
          \/ redis'[CompletedKey(JobId)].val # redis[CompletedKey(JobId)].val
    /\ ppc # "init_completed"

\* the dispatcher's setex of `completed`
InitCompletedStep == ppc = "init_completed" /\ ppc' = "chord"

\* C35: the progress record is initialised before the chord is submitted.
\* When the chord has been submitted, the dispatcher is past both setex
\* calls, `total` holds the number of chunks and `completed` is there; every
\* increment of process_chunk finds `completed` initialised and adds one to
\* it; and the setex of `completed` runs when no chunk task exists yet, so
\* it overwrites no increment.
C35_InitBeforeChord ==
    /\ [](header # <<>> =>
              /\ ppc \in {"map", "done", "revoked"}
              /\ Total = Len(header)
              /\ redis[CompletedKey(JobId)] # NoKey)
    /\ [][IncrementStep =>
              /\ ppc \in {"map", "done", "revoked"}
              /\ redis[CompletedKey(JobId)] # NoKey
              /\ redis'[CompletedKey(JobId)].val =
                    ToDigits(FromDigits(redis[CompletedKey(JobId)].val) + 1)]_vars
    /\ [][InitCompletedStep =>
              /\ header = <<>> /\ child = <<>>
              /\ redis[CompletedKey(JobId)] = NoKey
              /\ redis'[CompletedKey(JobId)] # NoKey
              /\ redis'[CompletedKey(JobId)].val = ToDigits(0)]_vars

\* a chunk task has incremented `completed` while the dispatcher has not
\* returned yet
C35_Witness ==
    /\ ppc = "map"
    /\ Completed >= 1
    /\ \E i \in Children : child[i].incrs = 1

(***************************************************************************)
(* Properties of the combined text (specification SpecAggregate).          *)
(***************************************************************************)
\* the results in the order aggregate_results went through them
SortedResults == files[LogPath(JobId)]

\* the pieces of the combined text, one per result in that order
Pieces == CombinedText(files, SortedResults, Password)

\* C30: one piece per result, in index order.  A success result contributes
\* the translation of its chunk; any other result contributes a visible
\* marker that names its chunk, so that the markers of two different chunks
\* differ; no result is dropped.
C30_MarkerNamesChunk ==
    cb_state = "done" =>
        /\ Len(Pieces) = Len(cb_args)
        /\ SavedFinalText = JoinNewline(Pieces)
        /\ \A k \in 1..Len(Pieces) :
              /\ SortedResults[k].status = "success" =>
                    Pieces[k] = TranslationOf(ChunkNumberOf(SortedResults[k]))
              /\ SortedResults[k].status # "success" => Pieces[k] # <<>>
        /\ \A j, k \in 1..Len(Pieces) :
              (/\ j # k
               /\ SortedResults[j].status # "success"
               /\ SortedResults[k].status # "success") => Pieces[j] # Pieces[k]

(***************************************************************************)
(* Properties of the ordering (specification SpecSort).                    *)
(***************************************************************************)
\* the path of the result is the path of a chunk file
Matches(res) == SortKeyPath(res).kind = "chunk_txt"

\* the place of a result in the list the callback was invoked with
ArrivalOf(res) == CHOOSE k \in 1..Len(cb_args) : cb_args[k] = res

ProgressKeys == {TotalKey(JobId), CompletedKey(JobId)}

\* C34: the expiry of the progress record.  The dispatcher creates both
\* keys with the long expiry; once aggregate_results has run, a key that is
\* still there carries the short expiry; a key that is there always has an
\* expiry, the long or the short one; and no step takes the expiry of a key
\* away or makes it longer.
C34_RecordExpires ==
    /\ [][\A key \in ProgressKeys :
              (redis[key] = NoKey /\ redis'[key] # NoKey /\ ppc # "done")
                  => redis'[key].ttl = ProgressTtl]_vars
    /\ [](cb_state = "done" =>
              \A key \in ProgressKeys :
                  redis[key] # NoKey => redis[key].ttl = FinishedTtl)
    /\ [](\A key \in ProgressKeys :
              redis[key] # NoKey => redis[key].ttl \in {ProgressTtl, FinishedTtl})
    /\ [][\A key \in ProgressKeys :
              (redis[key] # NoKey /\ redis'[key] # NoKey)
                  => redis'[key].ttl # -1 /\ redis'[key].ttl <= redis[key].ttl]_vars

(***************************************************************************)
(* Properties of the HTTP front-end (specification SpecApi).               *)
(***************************************************************************)
\* the last request answered was a download
Downloaded == response.endpoint = "download"

\* the combined text aggregate_results saved for the job, as bytes
FinalArtifactBytes == Utf8Encode(FinalContent(files, cb_args, Password))

\* C21: download returns content only if the join step found through
\* get_callback_id has succeeded and the passphrase supplied is the one the
\* final artifact was encrypted under, and then the content is the combined
\* text; in every other case the answer is an error without content.
C21_DownloadOnlyDecrypted ==
    /\ [](Downloaded =>
            /\ response.code \in {200, 400, 401, 404}
            /\ response.code = 200 =>
                  /\ cb_state = "done"
                  /\ GetCallbackId(redis, JobId) = callback.id
                  /\ response.password = callback.encryption_password
                  /\ response.body = FinalArtifactBytes
            /\ response.code # 200 => response.body = <<>>)
    /\ [][\A password \in Passwords :
              (DownloadFile(JobId, password)
                  /\ (cb_state # "done" \/ password # callback.encryption_password))
              => response'.code # 200]_vars

\* the last request answered was a status request and its body has a result
StatusHasResult == response.endpoint = "status" /\ response.json.has_result

\* C22: for a job whose callback mapping has been recorded, the result the
\* status endpoint reports, when present, is the result of the join step
\* found through get_callback_id: what aggregate_results returned.
C22_StatusReportsJoinResult ==
    (StatusHasResult /\ CallbackMapping # NoKey) =>
        /\ GetCallbackId(redis, JobId) = callback.id
        /\ response.json.result = cb_result
        /\ response.json.result.status = "completed"

\* the last answer of the status endpoint carries a download_url
StatusHasDownloadUrl == response.endpoint = "status" /\ response.json.has_download_url

\* C36: the status endpoint offers a download only for a finished job.  An
\* answer that carries download_url (and result) is given only when
\* aggregate_results of the job has completed and the final artifact that
\* the download endpoint serves is on disk.
C36_DownloadUrlMeansArtifact ==
    (StatusHasDownloadUrl \/ StatusHasResult) =>
        /\ cb_state = "done"
        /\ cb_result.status = "completed"
        /\ FinalPath(JobId) \in DOMAIN files

====
